---------------------------- MODULE Spec2Model ----------------------------
(***************************************************************************)
(* Model of the greeting-card web service (index.py) and of its companion  *)
(* command-line validator (vinayagar.py).                                  *)
(*                                                                         *)
(* Strings are sequences of Unicode code points.  Time is the value of     *)
(* time.time(), in whole seconds.                                          *)
(***************************************************************************)
EXTENDS Integers, Sequences, FiniteSets, TLC

VARIABLES
    clock,        \* the value time.time() returns
    ip_hits,      \* _ip_hits: client identifier -> deque of timestamps
    image_cache,  \* image_cache: insertion-ordered dict, key -> path
    files,        \* the cache directory: path -> file (mtime, data) or NoFile
    raw,          \* the text a validator is applied to (validator specification)
    resp,         \* the outcome of the last operation
    hist,         \* history: per client, what the rate limiter decided so far
    threads       \* the server's worker threads: where each is in its request

vars == <<clock, ip_hits, image_cache, files, raw, resp, hist, threads>>

(***************************************************************************)
(* Program constants                                                       *)
(***************************************************************************)
RATE_LIMIT == 5
TIME_WINDOW == 10
CACHE_TTL == 86400
MAX_NAME_LEN == 50
CLI_MIN_LEN == 2
CLI_MAX_LEN == 30

(***************************************************************************)
(* Bounds of the model                                                     *)
(***************************************************************************)
MaxLen == 2          \* longest free-form part of a validator input
MaxTicks == 12       \* last clock value of the rate-limiter specification
MaxDays == 2         \* days (of CACHE_TTL seconds) the request pipeline runs for
MaxPauses == 2       \* pauses the concurrent rate limiter runs for

(***************************************************************************)
(* Characters                                                              *)
(***************************************************************************)
\* The non-ASCII alphanumerics among the code points the model uses:
\* U+00E9 (e acute) and U+0B95 (Tamil KA).  U+00D7 (multiplication sign) and
\* U+0BBE (Tamil vowel sign AA) are not alphanumeric.
NonAsciiAlnum == {233, 2965}

Between(c, lo, hi) == lo <= c /\ c <= hi

\* \w of a str pattern: alphanumeric or underscore.
IsWord(c) ==
    \/ Between(c, 48, 57) \/ Between(c, 65, 90) \/ Between(c, 97, 122)
    \/ c = 95
    \/ c \in NonAsciiAlnum

\* str.isspace(): what str.strip() removes and what \s matches (BMP).
IsSpace(c) ==
    \/ Between(c, 9, 13) \/ Between(c, 28, 32)
    \/ c \in {133, 160, 5760}
    \/ Between(c, 8192, 8202)
    \/ c \in {8232, 8233, 8239, 8287, 12288}

\* ['<', '>', '"', "'", '&', '`']
UnsafeChars == {60, 62, 34, 39, 38, 96}

\* The code points inputs are built from:
\*   a 5 _ space - . , ' < > " & ` ! e-acute multiplication-sign
\*   Tamil KA, Tamil vowel sign AA
Alphabet ==
    {97, 53, 95, 32, 45, 46, 44, 39, 60, 62, 34, 38, 96, 33, 233, 215, 2965, 3006}

\* n copies of character c
RECURSIVE Repeat(_, _)
Repeat(c, n) == IF n <= 0 THEN <<>> ELSE <<c>> \o Repeat(c, n - 1)

RECURSIVE LStrip(_)
LStrip(s) ==
    IF s # <<>> /\ IsSpace(Head(s)) THEN LStrip(Tail(s)) ELSE s

RECURSIVE RStrip(_)
RStrip(s) ==
    IF s # <<>> /\ IsSpace(s[Len(s)])
    THEN RStrip(SubSeq(s, 1, Len(s) - 1))
    ELSE s

\* str.strip()
Strip(s) == RStrip(LStrip(s))

HasUnsafe(s) == \E i \in 1..Len(s) : s[i] \in UnsafeChars

(***************************************************************************)
(* The three character classes                                             *)
(***************************************************************************)
\* [\w\s\-\u0B80-\u0BFF]
CoreAllowed(c) ==
    IsWord(c) \/ IsSpace(c) \/ c = 45 \/ Between(c, 2944, 3071)

\* [\w\s\-\.\u00C0-\uFFFF]
HandlerAllowed(c) ==
    IsWord(c) \/ IsSpace(c) \/ c = 45 \/ c = 46 \/ Between(c, 192, 65535)

\* [A-Za-z0-9\s.,'-\u0B80-\u0BFF]: the items are A-Z, a-z, 0-9, \s, '.', ',',
\* the range from ' (U+0027) to U+0B80, a literal '-', and U+0BFF.
CliAllowed(c) ==
    \/ Between(c, 65, 90) \/ Between(c, 97, 122) \/ Between(c, 48, 57)
    \/ IsSpace(c)
    \/ c = 46 \/ c = 44
    \/ Between(c, 39, 2944)
    \/ c = 45
    \/ c = 3071

\* re.match(r'^[...]+$', s): one or more characters of the class up to the
\* end of the string, or up to a newline that ends the string.
CoreMatch(s) ==
    LET n == Len(s) IN
    /\ n >= 1
    /\ \/ \A i \in 1..n : CoreAllowed(s[i])
       \/ n >= 2 /\ s[n] = 10 /\ \A i \in 1..(n - 1) : CoreAllowed(s[i])

HandlerMatch(s) ==
    LET n == Len(s) IN
    /\ n >= 1
    /\ \/ \A i \in 1..n : HandlerAllowed(s[i])
       \/ n >= 2 /\ s[n] = 10 /\ \A i \in 1..(n - 1) : HandlerAllowed(s[i])

CliMatch(s) ==
    LET n == Len(s) IN
    /\ n >= 1
    /\ \/ \A i \in 1..n : CliAllowed(s[i])
       \/ n >= 2 /\ s[n] = 10 /\ \A i \in 1..(n - 1) : CliAllowed(s[i])

(***************************************************************************)
(* Validators.  A result is [ok, name, error]: the sanitized name, or the  *)
(* message of the exception raised.                                        *)
(***************************************************************************)
Accept(s) == [ok |-> TRUE, name |-> s, error |-> ""]
Reject(msg) == [ok |-> FALSE, name |-> <<>>, error |-> msg]

\* index.validate_name with the length test off by one
validate_name_LenOffByOne(r) ==
    LET s == Strip(r) IN
    IF s = <<>> THEN Reject("Empty name")
    ELSE IF ~CoreMatch(s) THEN Reject("Invalid characters")
    ELSE IF Len(s) > MAX_NAME_LEN + 1 THEN Reject("Too long")
    ELSE Accept(s)

\* index.validate_name
validate_name(r) ==
    LET s == Strip(r) IN
    IF s = <<>> THEN Reject("Empty name")
    ELSE IF ~CoreMatch(s) THEN Reject("Invalid characters")
    ELSE IF Len(s) > MAX_NAME_LEN THEN Reject("Too long")
    ELSE Accept(s)

\* vinayagar.validate_name
vinayagar_validate_name(r) ==
    LET s == Strip(r) IN
    IF ~(CLI_MIN_LEN <= Len(s) /\ Len(s) <= CLI_MAX_LEN)
    THEN Reject("Name must be 2-30 characters.")
    ELSE IF ~CliMatch(s) THEN Reject("Name contains invalid characters.")
    ELSE Accept(s)

\* The checks of generate_flag and generate_flag_slug between the rate limiter
\* and the cache: strip, empty, reject-list, allow-list, then validate_name.
\* stage names the check that decided.
request_checks(r) ==
    LET s == Strip(r) IN
    IF s = <<>>
    THEN [ok |-> FALSE, name |-> <<>>, error |-> "Name cannot be empty",
          stage |-> "empty"]
    ELSE IF HasUnsafe(s)
    THEN [ok |-> FALSE, name |-> <<>>, error |-> "Invalid characters in name",
          stage |-> "reject-list"]
    ELSE IF ~HandlerMatch(s)
    THEN [ok |-> FALSE, name |-> <<>>,
          error |-> "Name contains unsupported characters",
          stage |-> "allow-list"]
    ELSE LET v == validate_name(s) IN
         [ok |-> v.ok, name |-> v.name, error |-> v.error, stage |-> "core"]

(***************************************************************************)
(* Outcome of the last operation                                           *)
(***************************************************************************)
NoName == <<>>
NoData == [image |-> "none"]

NoResp ==
    [op |-> "none", ip |-> "", ok |-> FALSE, status |-> 0,
     error |-> "", stage |-> "", name |-> NoName,
     admitted |-> FALSE, swept |-> FALSE, rendered |-> FALSE, hit |-> FALSE,
     body |-> NoData, valid |-> FALSE, deleteFailed |-> FALSE,
     prior |-> 0, gap |-> 0, rejectedSince |-> FALSE]

(***************************************************************************)
(* RateLimiter                                                             *)
(***************************************************************************)
Clients == {"10.0.0.1", "10.0.0.2"}

\* _ip_hits is a defaultdict(deque): a missing client reads as an empty deque
Hits(tbl, ip) == IF ip \in DOMAIN tbl THEN tbl[ip] ELSE <<>>

SetHits(tbl, ip, h) ==
    [c \in DOMAIN tbl \cup {ip} |-> IF c = ip THEN h ELSE tbl[c]]

\* the purge loop with >= for >
RECURSIVE PurgeAtWindow(_, _)
PurgeAtWindow(hits, now) ==
    IF hits # <<>> /\ now - Head(hits) >= TIME_WINDOW
    THEN PurgeAtWindow(Tail(hits), now)
    ELSE hits

\* while hits and now - hits[0] > TIME_WINDOW: hits.popleft()
RECURSIVE Purge(_, _)
Purge(hits, now) ==
    IF hits # <<>> /\ now - Head(hits) > TIME_WINDOW
    THEN Purge(Tail(hits), now)
    ELSE hits

\* is_rate_limited recording the attempt before the test
is_rate_limited_RecordsAll(hits, now) ==
    LET h == Append(Purge(hits, now), now) IN
    IF Len(h) > RATE_LIMIT
    THEN [limited |-> TRUE, hits |-> h]
    ELSE [limited |-> FALSE, hits |-> h]

\* is_rate_limited on one client's deque: the verdict and the deque it leaves
is_rate_limited(hits, now) ==
    LET h == Purge(hits, now) IN
    IF Len(h) >= RATE_LIMIT
    THEN [limited |-> TRUE, hits |-> h]
    ELSE [limited |-> FALSE, hits |-> Append(h, now)]

\* History of one client: the admissions at most TIME_WINDOW old (kept by the
\* clock, not by the limiter), the time of the last admission (-1: none) and
\* whether an attempt was rejected since.
NoHist == [window |-> <<>>, last |-> -1, rejected |-> FALSE]

Recent(w, now) ==
    LET InWindow(t) == now - t <= TIME_WINDOW IN SelectSeq(w, InWindow)

Record(h, now, limited) ==
    IF limited
    THEN [h EXCEPT !.rejected = TRUE]
    ELSE [window |-> Append(h.window, now), last |-> now, rejected |-> FALSE]

\* The worker threads of the server (app.run() serves each request in a thread
\* of its own); a thread is idle or at a point of the request it serves.
Threads == {"t1", "t2"}

NoThread == [pc |-> "idle", route |-> "none", ip |-> "", now |-> 0, name |-> NoName]

InitCommon ==
    /\ clock = 0
    /\ ip_hits = << >>
    /\ image_cache = << >>
    /\ raw = << >>
    /\ resp = NoResp
    /\ hist = [c \in Clients |-> NoHist]
    /\ threads = [t \in Threads |-> NoThread]

\* A client calls is_rate_limited
RateCall(ip) ==
    LET r == is_rate_limited(Hits(ip_hits, ip), clock) IN
    /\ ip_hits' = SetHits(ip_hits, ip, r.hits)
    /\ hist' = [hist EXCEPT ![ip] = Record(@, clock, r.limited)]
    /\ resp' = [NoResp EXCEPT
                  !.op = "is_rate_limited", !.ip = ip,
                  !.admitted = ~r.limited,
                  !.status = IF r.limited THEN 429 ELSE 0,
                  !.prior = Len(hist[ip].window),
                  !.gap = IF hist[ip].last < 0 THEN -1 ELSE clock - hist[ip].last,
                  !.rejectedSince = hist[ip].rejected]
    /\ UNCHANGED <<clock, image_cache, files, raw, threads>>

\* One second passes
Tick ==
    /\ clock < MaxTicks
    /\ clock' = clock + 1
    /\ hist' = [c \in Clients |-> [hist[c] EXCEPT !.window = Recent(@, clock + 1)]]
    /\ UNCHANGED <<ip_hits, image_cache, files, raw, resp, threads>>

RateClients == {"10.0.0.1"}

InitRate == InitCommon /\ files = << >>

NextRate == (\E ip \in RateClients : RateCall(ip)) \/ Tick

SpecRate == InitRate /\ [][NextRate]_vars

(***************************************************************************)
(* Claims about the rate limiter (SpecRate)                                *)
(***************************************************************************)
\* A step that is a call or a request: time stands still, and the limiter's
\* table or the recorded outcome changes.
IsOperation == clock' = clock /\ (ip_hits' # ip_hits \/ resp' # resp)

IsSuffix(a, b) ==
    Len(a) <= Len(b) /\ a = SubSeq(b, Len(b) - Len(a) + 1, Len(b))

\* C1: for one client, with a clock that never goes back, at most RATE_LIMIT
\* calls are admitted inside any interval of TIME_WINDOW seconds (its two ends
\* included), and a call made when RATE_LIMIT admissions lie within the last
\* TIME_WINDOW seconds is rejected.
C1_AtMostLimitPerWindow ==
    /\ \A c \in Clients : Len(hist[c].window) <= RATE_LIMIT
    /\ (resp.op = "is_rate_limited" /\ resp.prior >= RATE_LIMIT) => ~resp.admitted

\* the sixth call inside the window of five admissions was rejected
C1_Witness ==
    /\ resp.op = "is_rate_limited"
    /\ resp.prior = RATE_LIMIT
    /\ ~resp.admitted
    /\ Len(hist[resp.ip].window) = RATE_LIMIT

\* C2: a call made more than TIME_WINDOW seconds after the client's last
\* admitted call is admitted, whatever was rejected in between, and a rejected
\* call appends nothing to the client's deque.
C2_ReadmittedAfterWindow ==
    [][(IsOperation /\ resp'.op = "is_rate_limited") =>
        LET c == resp'.ip IN
        /\ (hist[c].last >= 0 /\ clock - hist[c].last > TIME_WINDOW)
              => resp'.admitted
        /\ ~resp'.admitted
              => /\ IsSuffix(Hits(ip_hits', c), Hits(ip_hits, c))
                 /\ hist'[c].last = hist[c].last]_vars

\* a client rejected since its last admission is admitted once the window
\* has passed
C2_Witness ==
    /\ resp.op = "is_rate_limited"
    /\ resp.admitted
    /\ resp.rejectedSince
    /\ resp.gap > TIME_WINDOW

(***************************************************************************)
(* The validators applied to bounded inputs (SpecValidate)                 *)
(***************************************************************************)
ShortTexts == UNION {[1..n -> Alphabet] : n \in 0..MaxLen}

\* lengths of the run of letters that brings an input to the length limits
Pads == {0, CLI_MAX_LEN, MAX_NAME_LEN - 1, MAX_NAME_LEN}

Inputs ==
    {s \o Repeat(97, p) : s \in ShortTexts, p \in Pads}
        \cup {Repeat(97, p) \o s : s \in ShortTexts, p \in Pads}

Verdict(op, v) ==
    [NoResp EXCEPT !.op = op, !.ok = v.ok, !.name = v.name,
                   !.error = v.error]

\* share_page (and any caller) applies index.validate_name to the raw text
WebValidate ==
    /\ resp' = Verdict("validate_name", validate_name(raw))
    /\ UNCHANGED <<clock, ip_hits, image_cache, files, raw, hist, threads>>

\* argparse applies vinayagar.validate_name to the positional argument
CliValidate ==
    /\ resp' = Verdict("vinayagar.validate_name", vinayagar_validate_name(raw))
    /\ UNCHANGED <<clock, ip_hits, image_cache, files, raw, hist, threads>>

\* generate_flag and generate_flag_slug apply their checks to the raw text
RequestChecks ==
    LET v == request_checks(raw) IN
    /\ resp' = [Verdict("request_checks", v) EXCEPT !.stage = v.stage]
    /\ UNCHANGED <<clock, ip_hits, image_cache, files, raw, hist, threads>>

InitValidate ==
    /\ clock = 0
    /\ ip_hits = << >>
    /\ image_cache = << >>
    /\ files = << >>
    /\ raw \in Inputs
    /\ resp = NoResp
    /\ hist = [c \in Clients |-> NoHist]
    /\ threads = [t \in Threads |-> NoThread]

NextValidate == WebValidate \/ CliValidate \/ RequestChecks

SpecValidate == InitValidate /\ [][NextValidate]_vars

(***************************************************************************)
(* Claims about the validators (SpecValidate)                              *)
(***************************************************************************)
\* C5: no validator (index.validate_name, the checks of /generate and /image,
\* vinayagar.validate_name) accepts an input that contains one of
\* < > " ' & `.
C5_NoValidatorAcceptsUnsafe ==
    (resp.op \in {"validate_name", "request_checks", "vinayagar.validate_name"}
        /\ HasUnsafe(raw))
    => ~resp.ok

\* C6 as claimed: every input whose trimmed length exceeds MAX_NAME_LEN is
\* rejected with "Too long", whatever its characters.
C6_OverlongAlwaysTooLong ==
    (resp.op \in {"validate_name", "request_checks"}
        /\ Len(Strip(raw)) > MAX_NAME_LEN)
    => (~resp.ok /\ resp.error = "Too long")

\* C6 as amended: every input whose trimmed length exceeds MAX_NAME_LEN is
\* rejected; the error is "Too long" exactly when every character of the
\* trimmed input is in the core allow-list, and a character error otherwise.
C6_OverlongRejected ==
    (resp.op \in {"validate_name", "request_checks"}
        /\ Len(Strip(raw)) > MAX_NAME_LEN)
    => LET s == Strip(raw) IN
       /\ ~resp.ok
       /\ resp.error = "Too long" <=> \A i \in 1..Len(s) : CoreAllowed(s[i])
       /\ resp.error \in {"Too long", "Invalid characters",
                          "Invalid characters in name",
                          "Name contains unsupported characters"}

\* an over-long input of allowed characters was rejected as too long
C6_Witness ==
    /\ resp.op = "request_checks"
    /\ Len(Strip(raw)) = MAX_NAME_LEN + 1
    /\ resp.error = "Too long"

\* C9: an input that passes the two checks of the handler (reject-list,
\* allow-list) and is at most MAX_NAME_LEN long is accepted by
\* index.validate_name.
C9_PreChecksAgreeWithCore ==
    (resp.op = "request_checks" /\ resp.stage = "core"
        /\ Len(Strip(raw)) <= MAX_NAME_LEN)
    => resp.ok

(***************************************************************************)
(* ArtifactCache and the request pipeline                                  *)
(***************************************************************************)
\* get_cache_key: the SHA-256 hex digest of the name's UTF-8 bytes, kept as
\* the digest's preimage (names with equal digests are equal names).
get_cache_key(name) == [sha256 |-> name]

\* os.path.join(cache_dir, f"{cache_key}.png")
PathOf(key) == [dir |-> "flag_cache", stem |-> key, ext |-> "png"]

NoFile == [mtime |-> -1, data |-> NoData]

\* what create_vinayagar_card draws for a name
ImageOf(name) == [image |-> "card", footer |-> name]

Exists(fs, path) == fs[path] # NoFile

\* image_cache is a dict: a sequence of entries in insertion order
InCache(cache, key) == \E i \in 1..Len(cache) : cache[i].key = key

CacheGet(cache, key) ==
    LET i == CHOOSE j \in 1..Len(cache) : cache[j].key = key IN cache[i].path

\* image_cache.pop(key, None)
CachePop(cache, key) ==
    LET Other(e) == e.key # key IN SelectSeq(cache, Other)

\* image_cache[key] = path
CachePut(cache, key, path) ==
    IF InCache(cache, key)
    THEN [i \in 1..Len(cache) |->
            IF cache[i].key = key THEN [key |-> key, path |-> path] ELSE cache[i]]
    ELSE Append(cache, [key |-> key, path |-> path])

\* The loop of clean_cache over list(image_cache.items()).  refused is the set
\* of paths whose os.remove raises OSError; the exception ends the loop.
RECURSIVE Sweep(_, _, _, _, _)
Sweep(items, cache, fs, now, refused) ==
    IF items = <<>>
    THEN [cache |-> cache, files |-> fs, raised |-> FALSE]
    ELSE LET e == Head(items) IN
         IF ~Exists(fs, e.path) \/ now - fs[e.path].mtime > CACHE_TTL
         THEN LET popped == CachePop(cache, e.key) IN
              IF Exists(fs, e.path)
              THEN IF e.path \in refused
                   THEN [cache |-> popped, files |-> fs, raised |-> TRUE]
                   ELSE Sweep(Tail(items), popped,
                              [fs EXCEPT ![e.path] = NoFile], now, refused)
              ELSE Sweep(Tail(items), popped, fs, now, refused)
         ELSE Sweep(Tail(items), cache, fs, now, refused)

clean_cache(cache, fs, now, refused) == Sweep(cache, cache, fs, now, refused)

\* What a handler leaves behind
Outcome(hits, cache, fs, r) ==
    [hits |-> hits, cache |-> cache, files |-> fs, resp |-> r]

\* a handler that sweeps the cache before it returns an error
Refuse_After(hits, r, sw) == Outcome(hits, sw.cache, sw.files, r)

Refuse_Swept(hits, r) ==
    Refuse_After(hits, r, clean_cache(image_cache, files, clock, {}))

\* return jsonify({"error": ...}), 400 or 429
Refuse(hits, r) == Outcome(hits, image_cache, files, r)

\* create_vinayagar_card(name, image_path), then image_cache[cache_key] =
\* image_path and send_file.  how: "ok", or "error" when the renderer raises.
Render(hits, cache, fs, r, name, how) ==
    LET key == get_cache_key(name)
        path == PathOf(key)
        called == [r EXCEPT !.rendered = TRUE]
    IN  IF how = "ok"
        THEN Outcome(hits, CachePut(cache, key, path),
                     [fs EXCEPT ![path] = [mtime |-> clock, data |-> ImageOf(name)]],
                     [called EXCEPT !.status = 200, !.body = ImageOf(name)])
        ELSE Outcome(hits, cache, fs,
                     [called EXCEPT !.status = 500,
                                    !.error = "An internal error occurred"])

\* The try block of the handlers after clean_cache: sw is what the sweep left
Lookup(hits, r, name, how, sw) ==
    LET swept == [r EXCEPT !.swept = TRUE, !.name = name, !.ok = TRUE]
        key == get_cache_key(name)
    IN  IF sw.raised
        THEN Outcome(hits, sw.cache, sw.files,
                     [swept EXCEPT !.status = 500, !.deleteFailed = TRUE,
                                   !.error = "An internal error occurred"])
        ELSE IF InCache(sw.cache, key) /\ Exists(sw.files, CacheGet(sw.cache, key))
        THEN Outcome(hits, sw.cache, sw.files,
                     [swept EXCEPT !.status = 200, !.hit = TRUE,
                                   !.body = sw.files[CacheGet(sw.cache, key)].data])
        ELSE Render(hits, sw.cache, sw.files, swept, name, how)

\* The try block of the handlers once validate_name returned name
Serve(hits, r, name, how, refused) ==
    Lookup(hits, r, name, how, clean_cache(image_cache, files, clock, refused))

\* The handlers after the rate limiter admitted the request; v is the verdict
\* of the name checks
Validated(hits, r, v, how, refused) ==
    IF ~v.ok
    THEN Refuse(hits, [r EXCEPT !.status = 400, !.error = v.error,
                                !.stage = v.stage])
    ELSE Serve(hits, [r EXCEPT !.stage = v.stage], v.name, how, refused)

Checked(hits, r, text, how, refused) ==
    Validated(hits, r, request_checks(text), how, refused)

Request(route, ip, text) ==
    [NoResp EXCEPT !.op = route, !.ip = ip, !.valid = request_checks(text).ok]

\* a handler that validates the name before it consults the rate limiter
Limited_ChecksFirst(r, ip, rl, text, how, refused) ==
    IF ~r.valid
    THEN Validated(ip_hits, r, request_checks(text), how, refused)
    ELSE IF rl.limited
    THEN Refuse(SetHits(ip_hits, ip, rl.hits),
                [r EXCEPT !.status = 429, !.error = "Too many requests"])
    ELSE Checked(SetHits(ip_hits, ip, rl.hits), [r EXCEPT !.admitted = TRUE],
                 text, how, refused)

\* if is_rate_limited(client_ip): return 429, else the rest of the handler;
\* rl is what is_rate_limited returned and left
Limited(r, ip, rl, text, how, refused) ==
    IF rl.limited
    THEN Refuse(SetHits(ip_hits, ip, rl.hits),
                [r EXCEPT !.status = 429, !.error = "Too many requests"])
    ELSE Checked(SetHits(ip_hits, ip, rl.hits), [r EXCEPT !.admitted = TRUE],
                 text, how, refused)

\* generate_flag and generate_flag_slug: the body the two routes share
Handle(route, ip, text, how, refused) ==
    Limited(Request(route, ip, text), ip,
            is_rate_limited(Hits(ip_hits, ip), clock), text, how, refused)

(***************************************************************************)
(* The request pipeline (Spec)                                             *)
(***************************************************************************)
\* "Ku", Tamil KA, " ", "<a", "a!", "a.b"
NameA == <<75, 117>>
NameB == <<2965>>
Requests == {NameA, NameB, <<32>>, <<60, 97>>, <<97, 33>>, <<97, 46, 98>>}

Paths == {PathOf(get_cache_key(n)) : n \in {NameA, NameB}}

\* What the surroundings decide for one request: whether the renderer raises,
\* and the paths whose os.remove raises.  The sweep ends at the first refused
\* removal, so at most one refused path is told apart.
Surroundings ==
    {[how |-> h, refused |-> {}] : h \in {"ok", "error"}}
        \cup {[how |-> "ok", refused |-> {p}] : p \in Paths}

PipelineClients == {"10.0.0.1"}

\* the handler returns: o is what it leaves behind
Return(o) ==
    /\ ip_hits' = o.hits
    /\ image_cache' = o.cache
    /\ files' = o.files
    /\ resp' = o.resp
    /\ UNCHANGED <<clock, raw, hist, threads>>

\* GET /generate?name=<text>
generate_flag(ip, text, env) ==
    /\ ip \in Clients
    /\ Return(Handle("generate", ip, text, env.how, env.refused))

\* GET /image/<text>: the path segment is not empty
generate_flag_slug(ip, text, env) ==
    /\ text # <<>>
    /\ Return(Handle("image", ip, text, env.how, env.refused))

\* GET /share/<text>
share_page(text) ==
    LET v == validate_name(text) IN
    /\ text # <<>>
    /\ resp' = [NoResp EXCEPT !.op = "share", !.valid = v.ok,
                              !.ok = v.ok, !.name = v.name,
                              !.status = IF v.ok THEN 200 ELSE 400,
                              !.error = IF v.ok THEN "" ELSE "Invalid name"]
    /\ UNCHANGED <<clock, ip_hits, image_cache, files, raw, hist, threads>>

\* CACHE_TTL seconds pass
Advance ==
    /\ clock + CACHE_TTL <= MaxDays * CACHE_TTL
    /\ clock' = clock + CACHE_TTL
    /\ UNCHANGED <<ip_hits, image_cache, files, raw, resp, hist, threads>>

\* Something outside the service removes a file of the cache directory
ExternalRemove(path) ==
    /\ Exists(files, path)
    /\ files' = [files EXCEPT ![path] = NoFile]
    /\ UNCHANGED <<clock, ip_hits, image_cache, raw, resp, hist, threads>>

Init == InitCommon /\ files = [p \in Paths |-> NoFile]

Next ==
    \/ \E ip \in PipelineClients, text \in Requests, env \in Surroundings :
          generate_flag(ip, text, env)
    \/ \E ip \in PipelineClients, text \in Requests, env \in Surroundings :
          generate_flag_slug(ip, text, env)
    \/ \E text \in Requests : share_page(text)
    \/ Advance
    \/ \E path \in Paths : ExternalRemove(path)

Spec == Init /\ [][Next]_vars

(***************************************************************************)
(* Claims about the request pipeline (Spec)                                *)
(***************************************************************************)
Routes == {"generate", "image"}

CountAt(h, t) == Cardinality({i \in 1..Len(h) : h[i] = t})

\* the request of this step appended its timestamp to its client's deque
Appended(ip) ==
    CountAt(Hits(ip_hits', ip), clock) = CountAt(Hits(ip_hits, ip), clock) + 1

NotAppended(ip) ==
    CountAt(Hits(ip_hits', ip), clock) = CountAt(Hits(ip_hits, ip), clock)

\* the client has RATE_LIMIT admissions within the last TIME_WINDOW seconds
AtLimit(ip) == Len(Recent(Hits(ip_hits, ip), clock)) >= RATE_LIMIT

Fresh(fs, path, now) == Exists(fs, path) /\ now - fs[path].mtime <= CACHE_TTL

Expired(fs, path, now) == Exists(fs, path) /\ now - fs[path].mtime > CACHE_TTL

\* C3: of two successive admitted requests for the same sanitized name, the
\* first answered with the image, where the cached file is neither older
\* than CACHE_TTL nor removed when the second arrives, the second is a cache
\* hit served from the stored path and does not invoke the renderer.
C3_SecondRequestIsHit ==
    [][(/\ IsOperation
        /\ resp.op \in Routes /\ resp.status = 200
        /\ resp'.op \in Routes /\ resp'.admitted /\ resp'.valid
        /\ resp'.name = resp.name
        /\ Fresh(files, PathOf(get_cache_key(resp.name)), clock))
       => (/\ resp'.status = 200
           /\ resp'.hit
           /\ ~resp'.rendered
           /\ resp'.body = ImageOf(resp.name))]_vars

\* C4: an admitted request for a name whose cache entry is older than
\* CACHE_TTL is never served the stored file: the entry leaves the index and
\* the disk, the renderer is invoked and, when it succeeds, a fresh entry is
\* recorded and served.
C4_ExpiredEntryRefreshed ==
    [][(/\ IsOperation
        /\ resp'.op \in Routes /\ resp'.admitted /\ resp'.valid
        /\ InCache(image_cache, get_cache_key(resp'.name))
        /\ Expired(files, PathOf(get_cache_key(resp'.name)), clock))
       => LET key == get_cache_key(resp'.name)
              path == PathOf(key)
          IN  /\ ~resp'.hit
              /\ resp'.rendered
              /\ resp'.status = 200
                    => /\ InCache(image_cache', key)
                       /\ files'[path] = [mtime |-> clock,
                                          data |-> ImageOf(resp'.name)]
                       /\ resp'.body = ImageOf(resp'.name)
              /\ resp'.status # 200
                    => ~InCache(image_cache', key) /\ ~Exists(files', path)]_vars

\* C7 as claimed: a request to /generate or /image whose name is invalid is
\* answered with the 400 validation error, also when its client is at the
\* limit, and appends no timestamp to the client's deque.
C7_ValidationBeforeLimiter ==
    [][(IsOperation /\ resp'.op \in Routes /\ ~resp'.valid)
       => (resp'.status = 400 /\ NotAppended(resp'.ip))]_vars

\* C7 as amended: rate-limit admission precedes validation.  A request of a
\* client at its limit is answered 429 whatever its name and appends nothing;
\* a request with an invalid name of a client below its limit is answered with
\* the 400 validation error and does append its timestamp.
C7_LimiterBeforeValidation ==
    [][(IsOperation /\ resp'.op \in Routes)
       => /\ AtLimit(resp'.ip)
                => (resp'.status = 429 /\ NotAppended(resp'.ip))
          /\ (~AtLimit(resp'.ip) /\ ~resp'.valid)
                => (resp'.status = 400 /\ Appended(resp'.ip))]_vars

\* a request with an invalid name was answered 429: its client was at the limit
C7_Witness ==
    /\ resp.op \in Routes
    /\ ~resp.valid
    /\ resp.status = 429
    /\ Len(Hits(ip_hits, resp.ip)) = RATE_LIMIT

\* C8: a request to /generate or /image that is rejected (400 or 429) leaves
\* the cache as it was: no sweep, no render, image_cache and the files of the
\* cache directory unchanged.
C8_RejectionLeavesCache ==
    [][(IsOperation /\ resp'.op \in Routes /\ resp'.status \in {400, 429})
       => /\ image_cache' = image_cache
          /\ files' = files
          /\ ~resp'.swept
          /\ ~resp'.rendered
          /\ ~resp'.hit]_vars

\* a rejected request left in place an entry that a sweep would have removed
C8_Witness ==
    /\ resp.op \in Routes
    /\ resp.status \in {400, 429}
    /\ \E i \in 1..Len(image_cache) : Expired(files, image_cache[i].path, clock)

\* C10: when os.remove fails during the sweep, the error is swallowed: the
\* request goes on to the lookup and is served from the cache or rendered.
C10_DeleteErrorSwallowed ==
    (resp.op \in Routes /\ resp.deleteFailed) => (resp.hit \/ resp.rendered)

(***************************************************************************)
(* is_rate_limited called by concurrent threads (SpecLimiterThreads)       *)
(*                                                                         *)
(* The function takes no lock: a thread can be preempted between any two   *)
(* of its operations on the shared deque, so each operation is a step.     *)
(***************************************************************************)
PauseLen == TIME_WINDOW \div 2 + 1

At(t, pc) == threads[t].pc = pc

Goto(t, pc) == threads' = [threads EXCEPT ![t].pc = pc]

\* hits[0] or hits.popleft() on an empty deque raises IndexError; nothing
\* catches it in the handler, and the request is answered 500
RaiseIndexError(t) ==
    /\ threads' = [threads EXCEPT ![t] = NoThread]
    /\ resp' = [NoResp EXCEPT !.op = "is_rate_limited", !.ip = threads[t].ip,
                              !.status = 500, !.error = "IndexError"]

\* now = time.time(); hits = _ip_hits[ip]
is_rate_limited_enter(t, ip) ==
    /\ At(t, "idle")
    /\ threads' = [threads EXCEPT ![t] =
                     [NoThread EXCEPT !.pc = "while", !.route = "is_rate_limited",
                                      !.ip = ip, !.now = clock]]
    /\ ip_hits' = SetHits(ip_hits, ip, Hits(ip_hits, ip))
    /\ UNCHANGED <<clock, image_cache, files, raw, resp, hist>>

\* while hits ...
is_rate_limited_while(t) ==
    /\ At(t, "while")
    /\ Goto(t, IF Hits(ip_hits, threads[t].ip) # <<>> THEN "head" ELSE "len")
    /\ UNCHANGED <<clock, ip_hits, image_cache, files, raw, resp, hist>>

\* ... and now - hits[0] > TIME_WINDOW
is_rate_limited_head(t) ==
    /\ At(t, "head")
    /\ IF Hits(ip_hits, threads[t].ip) = <<>>
       THEN RaiseIndexError(t)
       ELSE /\ Goto(t, IF threads[t].now - Head(Hits(ip_hits, threads[t].ip))
                            > TIME_WINDOW
                       THEN "popleft" ELSE "len")
            /\ UNCHANGED resp
    /\ UNCHANGED <<clock, ip_hits, image_cache, files, raw, hist>>

\* hits.popleft()
is_rate_limited_popleft(t) ==
    /\ At(t, "popleft")
    /\ IF Hits(ip_hits, threads[t].ip) = <<>>
       THEN RaiseIndexError(t) /\ UNCHANGED ip_hits
       ELSE /\ ip_hits' = SetHits(ip_hits, threads[t].ip,
                                  Tail(Hits(ip_hits, threads[t].ip)))
            /\ Goto(t, "while")
            /\ UNCHANGED resp
    /\ UNCHANGED <<clock, image_cache, files, raw, hist>>

\* if len(hits) >= RATE_LIMIT: return True
is_rate_limited_len(t) ==
    /\ At(t, "len")
    /\ IF Len(Hits(ip_hits, threads[t].ip)) >= RATE_LIMIT
       THEN /\ threads' = [threads EXCEPT ![t] = NoThread]
            /\ resp' = [NoResp EXCEPT !.op = "is_rate_limited",
                                      !.ip = threads[t].ip, !.status = 429]
       ELSE /\ Goto(t, "append")
            /\ UNCHANGED resp
    /\ UNCHANGED <<clock, ip_hits, image_cache, files, raw, hist>>

\* hits.append(now); return False
is_rate_limited_append(t) ==
    /\ At(t, "append")
    /\ ip_hits' = SetHits(ip_hits, threads[t].ip,
                          Append(Hits(ip_hits, threads[t].ip), threads[t].now))
    /\ threads' = [threads EXCEPT ![t] = NoThread]
    /\ resp' = [NoResp EXCEPT !.op = "is_rate_limited", !.ip = threads[t].ip,
                              !.admitted = TRUE]
    /\ hist' = [hist EXCEPT ![threads[t].ip].window = Append(@, clock)]
    /\ UNCHANGED <<clock, image_cache, files, raw>>

\* Time passes while threads are at work: a little more than half a window
Pause ==
    /\ clock + PauseLen <= MaxPauses * PauseLen
    /\ clock' = clock + PauseLen
    /\ hist' = [c \in Clients |->
                  [hist[c] EXCEPT !.window = Recent(@, clock + PauseLen)]]
    /\ UNCHANGED <<ip_hits, image_cache, files, raw, resp, threads>>

NextLimiterThreads ==
    \/ \E t \in Threads, ip \in RateClients : is_rate_limited_enter(t, ip)
    \/ \E t \in Threads : is_rate_limited_while(t)
    \/ \E t \in Threads : is_rate_limited_head(t)
    \/ \E t \in Threads : is_rate_limited_popleft(t)
    \/ \E t \in Threads : is_rate_limited_len(t)
    \/ \E t \in Threads : is_rate_limited_append(t)
    \/ Pause

SpecLimiterThreads == InitRate /\ [][NextLimiterThreads]_vars

\* C11: whatever the interleaving of concurrent calls of one client, that
\* client's deque never holds more than RATE_LIMIT timestamps and no more
\* than RATE_LIMIT of its calls are admitted within TIME_WINDOW seconds.
C11_NoOverAdmission ==
    \A c \in Clients :
        /\ Len(Hits(ip_hits, c)) <= RATE_LIMIT
        /\ Len(hist[c].window) <= RATE_LIMIT

(***************************************************************************)
(* The handlers in concurrent threads (SpecCacheThreads)                   *)
(*                                                                         *)
(* Neither image_cache nor the cache directory is guarded by a lock: a     *)
(* thread can be preempted between the sweep, the lookup, the renderer's   *)
(* opening and writing of the file, the store and send_file.  The requests *)
(* overlap within one second: the clock stands still (expiry is Spec's).   *)
(***************************************************************************)
\* img.save(output_path, "PNG") has opened the file for writing (which
\* truncates it) and has not finished writing it
Partial == [image |-> "partial"]

PathOfName(name) == PathOf(get_cache_key(name))

ThreadRequests == {NameA, NameB, <<60, 97>>}

\* The handler up to validate_name: rate limiter, pre-checks, core validator
handler_begin(t, route, ip, text) ==
    LET rl == is_rate_limited(Hits(ip_hits, ip), clock)
        v == request_checks(text)
        r == [NoResp EXCEPT !.op = route, !.ip = ip, !.valid = v.ok]
    IN  /\ At(t, "idle")
        /\ ip_hits' = SetHits(ip_hits, ip, rl.hits)
        /\ IF rl.limited
           THEN /\ resp' = [r EXCEPT !.status = 429, !.error = "Too many requests"]
                /\ UNCHANGED threads
           ELSE IF ~v.ok
           THEN /\ resp' = [r EXCEPT !.admitted = TRUE, !.status = 400,
                                     !.error = v.error, !.stage = v.stage]
                /\ UNCHANGED threads
           ELSE /\ threads' = [threads EXCEPT ![t] =
                                 [NoThread EXCEPT !.pc = "clean", !.route = route,
                                                  !.ip = ip, !.now = clock,
                                                  !.name = v.name]]
                /\ UNCHANGED resp
        /\ UNCHANGED <<clock, image_cache, files, raw, hist>>

\* clean_cache()
handler_clean_cache(t) ==
    LET sw == clean_cache(image_cache, files, clock, {}) IN
    /\ At(t, "clean")
    /\ image_cache' = sw.cache
    /\ files' = sw.files
    /\ Goto(t, "lookup")
    /\ UNCHANGED <<clock, ip_hits, raw, resp, hist>>

\* if cache_key in image_cache and os.path.exists(image_cache[cache_key])
handler_lookup(t) ==
    LET key == get_cache_key(threads[t].name) IN
    /\ At(t, "lookup")
    /\ Goto(t, IF InCache(image_cache, key)
                  /\ Exists(files, CacheGet(image_cache, key))
               THEN "send_hit" ELSE "open")
    /\ UNCHANGED <<clock, ip_hits, image_cache, files, raw, resp, hist>>

\* create_vinayagar_card: the card is drawn and img.save opens output_path
create_vinayagar_card_open(t) ==
    /\ At(t, "open")
    /\ files' = [files EXCEPT ![PathOfName(threads[t].name)] =
                   [mtime |-> clock, data |-> Partial]]
    /\ Goto(t, "write")
    /\ UNCHANGED <<clock, ip_hits, image_cache, raw, resp, hist>>

\* create_vinayagar_card: img.save writes the image and closes the file
create_vinayagar_card_write(t) ==
    /\ At(t, "write")
    /\ files' = [files EXCEPT ![PathOfName(threads[t].name)] =
                   [mtime |-> clock, data |-> ImageOf(threads[t].name)]]
    /\ Goto(t, "store")
    /\ UNCHANGED <<clock, ip_hits, image_cache, raw, resp, hist>>

\* image_cache[cache_key] = image_path
handler_store(t) ==
    LET key == get_cache_key(threads[t].name) IN
    /\ At(t, "store")
    /\ image_cache' = CachePut(image_cache, key, PathOf(key))
    /\ Goto(t, "send_new")
    /\ UNCHANGED <<clock, ip_hits, files, raw, resp, hist>>

\* return send_file(path): the body is what the file holds when it is read;
\* a missing file raises, and the handler answers 500
handler_send_file(t) ==
    LET path == PathOfName(threads[t].name)
        r == [NoResp EXCEPT !.op = threads[t].route, !.ip = threads[t].ip,
                            !.valid = TRUE, !.admitted = TRUE, !.swept = TRUE,
                            !.ok = TRUE, !.name = threads[t].name,
                            !.hit = At(t, "send_hit"),
                            !.rendered = At(t, "send_new")]
    IN  /\ At(t, "send_hit") \/ At(t, "send_new")
        /\ resp' = IF Exists(files, path)
                   THEN [r EXCEPT !.status = 200, !.body = files[path].data]
                   ELSE [r EXCEPT !.status = 500,
                                  !.error = "An internal error occurred"]
        /\ threads' = [threads EXCEPT ![t] = NoThread]
        /\ UNCHANGED <<clock, ip_hits, image_cache, files, raw, hist>>

NextCacheThreads ==
    \/ \E t \in Threads, route \in {"generate", "image"}, ip \in PipelineClients,
          text \in ThreadRequests : handler_begin(t, route, ip, text)
    \/ \E t \in Threads : handler_clean_cache(t)
    \/ \E t \in Threads : handler_lookup(t)
    \/ \E t \in Threads : create_vinayagar_card_open(t)
    \/ \E t \in Threads : create_vinayagar_card_write(t)
    \/ \E t \in Threads : handler_store(t)
    \/ \E t \in Threads : handler_send_file(t)
    \/ \E path \in Paths : ExternalRemove(path)

SpecCacheThreads == Init /\ [][NextCacheThreads]_vars

\* A thread is inside create_vinayagar_card
InRenderer(t) == threads[t].pc \in {"open", "write"}

\* C12: whatever the interleaving of concurrent requests for one name, the
\* bytes send_file sends are a complete rendered image of that name, never a
\* partially written or truncated file.
C12_ReaderSeesCompleteFile ==
    (resp.op \in {"generate", "image"} /\ resp.status = 200)
        => resp.body = ImageOf(resp.name)

\* C13: at most one render per key at a time: two concurrent requests for one
\* name are never both inside create_vinayagar_card, one of them renders and
\* the other is served the stored result.
C13_OneRenderPerKey ==
    \A t, u \in Threads :
        (t # u /\ threads[t].name = threads[u].name /\ InRenderer(t))
            => ~InRenderer(u)

=============================================================================
